---- MODULE Spec2Model ----
(***************************************************************************)
(* Model of the two ciphers of the repository:                             *)
(*   - TableRouteCipher  (src/TableRoute/src): table route transposition,  *)
(*     keyed by a column count;                                            *)
(*   - modAlphaCipher    (src/modAlpha/src): repeating-key shift over the  *)
(*     33-letter Russian alphabet.                                         *)
(* Characters are their code points (char for the route cipher, wchar_t    *)
(* for the substitution cipher); strings are sequences of code points.     *)
(* A call's outcome is a record [kind, val]: kind "ok" with the returned   *)
(* string, or the kind of the cipher_error thrown, with val = << >>.       *)
(***************************************************************************)
EXTENDS Integers, Sequences, FiniteSets, TLC

VARIABLES
    \* ---- TableRouteCipher program ----
    rcState,    \* "none" | "constructed" | "failed": outcome of the last constructor call
    rcKeyArg,   \* int key handed to the constructor
    rcErr,      \* kind of the cipher_error the constructor threw ("" if none)
    columns,    \* TableRouteCipher::columns (0 while no instance exists)
    rcText,     \* main's std::string text, the line std::getline is reading
    rcCall,     \* the last encrypt/decrypt call on the instance
    \* ---- modAlphaCipher program ----
    maState,    \* "none" | "constructed" | "failed"
    maKeyArg,   \* wstring skey handed to the constructor
    maErr,      \* what() of the cipher_error the constructor threw ("" if none)
    alphaNum,   \* modAlphaCipher::alphaNum (symbol -> index map)
    key,        \* modAlphaCipher::key (vector<int>)
    maText,     \* the wstring the caller is preparing for the next call
    maCall,     \* the last encrypt/decrypt call on the instance
    \* ---- callers sharing one instance ----
    callers,    \* per caller: the call in progress, its position and its locals
    bufs        \* per storage slot: a std::vector<int> work of modAlphaCipher

rcVars == <<rcState, rcKeyArg, rcErr, columns, rcText, rcCall>>
maVars == <<maState, maKeyArg, maErr, alphaNum, key, maText, maCall>>
ccVars == <<callers, bufs>>
vars == <<rcState, rcKeyArg, rcErr, columns, rcText, rcCall,
          maState, maKeyArg, maErr, alphaNum, key, maText, maCall, callers, bufs>>

----------------------------------------------------------------------------
(* Bounds of the explored inputs *)

MaxColumns == 3      \* constructor keys range over -1..MaxColumns
MaxTextLen == 5      \* route cipher inputs have at most this many characters
MaxKeyLen == 3       \* substitution keys have at most this many characters
MaxAlphaLen == 3     \* substitution inputs have at most this many characters
MaxConcRouteLen == 3 \* route inputs of concurrent calls have at most this many characters
MaxConcAlphaLen == 3 \* substitution inputs of concurrent calls have at most this many

\* char inputs of the route cipher: 'H' 'E' 'L' 'O', lowercase 'l', digit '1'
RouteChars == {72, 69, 76, 79, 108, 49}

RouteKeys == (-1)..MaxColumns

\* wchar_t inputs of the substitution key: 'А' 'Б' 'Я', lowercase 'б', Latin 'K'
KeyChars == {1040, 1041, 1071, 1073, 75}
\* wchar_t inputs of the substitution text: 'А' 'Я' 'Ё', lowercase 'б' 'ё', Latin 'K'
AlphaChars == {1040, 1071, 1025, 1073, 1105, 75}

----------------------------------------------------------------------------
(* Outcomes *)

Ok(v) == [kind |-> "ok", val |-> v]
Throw(k) == [kind |-> k, val |-> << >>]
NoCall == [op |-> "none", arg |-> << >>, src |-> << >>, out |-> Throw("")]

----------------------------------------------------------------------------
(* TableRouteCipher *)

\* <cctype> in the "C" locale (the program never calls setlocale), on the
\* 7-bit characters the inputs are drawn from; bytes above 127 are negative
\* chars, outside the domain of isalpha, and are not among the inputs
isalpha(c) == (c >= 65 /\ c <= 90) \/ (c >= 97 /\ c <= 122)
toupper(c) == IF c >= 97 /\ c <= 122 THEN c - 32 ELSE c

\* TableRouteCipher::getValidKey: "Ключ должен быть положительным" is InvalidKey
TableRoute_getValidKey_lt(k) ==
    IF k < 0 THEN Throw("InvalidKey") ELSE [kind |-> "ok", val |-> k]
TableRoute_getValidKey(k) ==
    IF k <= 0 THEN Throw("InvalidKey") ELSE [kind |-> "ok", val |-> k]

\* the for loop of getValidText: keep letters, uppercased
RECURSIVE TableRoute_filter_noUpper(_)
TableRoute_filter_noUpper(text) ==
    IF text = << >> THEN << >>
    ELSE (IF isalpha(Head(text)) THEN <<Head(text)>> ELSE << >>)
         \o TableRoute_filter_noUpper(Tail(text))
RECURSIVE TableRoute_filter(_)
TableRoute_filter(text) ==
    IF text = << >> THEN << >>
    ELSE (IF isalpha(Head(text)) THEN <<toupper(Head(text))>> ELSE << >>)
         \o TableRoute_filter(Tail(text))

\* TableRouteCipher::getValidText: "Текст пуст" is EmptyText,
\* "Текст не содержит букв" is NoLetters
TableRoute_getValidText_noLetterTest(text) ==
    IF text = << >> THEN Throw("EmptyText") ELSE Ok(TableRoute_filter(text))
TableRoute_getValidText(text) ==
    IF text = << >> THEN Throw("EmptyText")
    ELSE LET result == TableRoute_filter(text)
         IN IF result = << >> THEN Throw("NoLetters") ELSE Ok(result)

\* std::vector<std::vector<char>> table(rows, std::vector<char>(columns, ' '))
BlankTable(rows, cols) == [i \in 0..(rows - 1) |-> [j \in 0..(cols - 1) |-> 32]]

\* encrypt's fill loops: for i < rows, for j < columns, if (index < length)
\* table[i][j] = validText[index++].  n counts the loop bodies already run.
RECURSIVE EncryptFill(_, _, _, _, _, _)
EncryptFill(table, validText, rows, cols, n, index) ==
    IF n >= rows * cols THEN table
    ELSE LET i == n \div cols
             j == n % cols
         IN IF index < Len(validText)
            THEN EncryptFill([table EXCEPT ![i][j] = validText[index + 1]],
                             validText, rows, cols, n + 1, index + 1)
            ELSE EncryptFill(table, validText, rows, cols, n + 1, index)

\* encrypt's read loops: for j = columns-1..0, for i = rows-1..0,
\* if (table[i][j] != ' ') result += table[i][j]
RECURSIVE EncryptRead_topDown(_, _, _, _, _)
EncryptRead_topDown(table, rows, cols, n, result) ==
    IF n >= rows * cols THEN result
    ELSE LET j == (cols - 1) - (n \div rows)
             i == n % rows
         IN EncryptRead_topDown(table, rows, cols, n + 1,
                        IF table[i][j] # 32 THEN Append(result, table[i][j]) ELSE result)
RECURSIVE EncryptRead(_, _, _, _, _)
EncryptRead(table, rows, cols, n, result) ==
    IF n >= rows * cols THEN result
    ELSE LET j == (cols - 1) - (n \div rows)
             i == (rows - 1) - (n % rows)
         IN EncryptRead(table, rows, cols, n + 1,
                        IF table[i][j] # 32 THEN Append(result, table[i][j]) ELSE result)

\* the length rule shared by encrypt and decrypt:
\* "Длина текста должна быть больше ключа (количества столбцов)" is TextTooShort
TooShort_lt(validText, cols) == Len(validText) < cols
TooShort(validText, cols) == Len(validText) <= cols

\* TableRouteCipher::encrypt
TableRoute_encrypt(cols, text) ==
    LET vt == TableRoute_getValidText(text)
    IN IF vt.kind # "ok" THEN vt
       ELSE IF TooShort(vt.val, cols) THEN Throw("TextTooShort")
       ELSE LET length == Len(vt.val)
                rows == (length + cols - 1) \div cols
                table == EncryptFill(BlankTable(rows, cols), vt.val, rows, cols, 0, 0)
            IN Ok(EncryptRead(table, rows, cols, 0, << >>))

\* decrypt's bookkeeping loops: filled[i][j] = true for the first length cells
RECURSIVE DecryptMark(_, _, _, _, _, _)
DecryptMark(filled, length, rows, cols, n, total_filled) ==
    IF n >= rows * cols THEN filled
    ELSE LET i == n \div cols
             j == n % cols
         IN IF total_filled < length
            THEN DecryptMark([filled EXCEPT ![i][j] = TRUE], length, rows, cols,
                             n + 1, total_filled + 1)
            ELSE DecryptMark(filled, length, rows, cols, n + 1, total_filled)

\* decrypt's write loops: for j = columns-1..0, for i = rows-1..0,
\* if (filled[i][j] && text_index < length) table[i][j] = validText[text_index++]
RECURSIVE DecryptWrite_noFilled(_, _, _, _, _, _, _)
DecryptWrite_noFilled(table, filled, validText, rows, cols, n, text_index) ==
    IF n >= rows * cols THEN table
    ELSE LET j == (cols - 1) - (n \div rows)
             i == (rows - 1) - (n % rows)
         IN IF text_index < Len(validText)
            THEN DecryptWrite_noFilled([table EXCEPT ![i][j] = validText[text_index + 1]],
                              filled, validText, rows, cols, n + 1, text_index + 1)
            ELSE DecryptWrite_noFilled(table, filled, validText, rows, cols, n + 1, text_index)
RECURSIVE DecryptWrite(_, _, _, _, _, _, _)
DecryptWrite(table, filled, validText, rows, cols, n, text_index) ==
    IF n >= rows * cols THEN table
    ELSE LET j == (cols - 1) - (n \div rows)
             i == (rows - 1) - (n % rows)
         IN IF filled[i][j] /\ text_index < Len(validText)
            THEN DecryptWrite([table EXCEPT ![i][j] = validText[text_index + 1]],
                              filled, validText, rows, cols, n + 1, text_index + 1)
            ELSE DecryptWrite(table, filled, validText, rows, cols, n + 1, text_index)

\* decrypt's read loops: for i < rows, for j < columns,
\* if (filled[i][j]) result += table[i][j]
RECURSIVE DecryptRead(_, _, _, _, _, _)
DecryptRead(table, filled, rows, cols, n, result) ==
    IF n >= rows * cols THEN result
    ELSE LET i == n \div cols
             j == n % cols
         IN DecryptRead(table, filled, rows, cols, n + 1,
                        IF filled[i][j] THEN Append(result, table[i][j]) ELSE result)

\* TableRouteCipher::decrypt
TableRoute_decrypt(cols, text) ==
    LET vt == TableRoute_getValidText(text)
    IN IF vt.kind # "ok" THEN vt
       ELSE IF TooShort(vt.val, cols) THEN Throw("TextTooShort")
       ELSE LET length == Len(vt.val)
                rows == (length + cols - 1) \div cols
                noneFilled == [i \in 0..(rows - 1) |-> [j \in 0..(cols - 1) |-> FALSE]]
                filled == DecryptMark(noneFilled, length, rows, cols, 0, 0)
                table == DecryptWrite(BlankTable(rows, cols), filled, vt.val,
                                      rows, cols, 0, 0)
            IN Ok(DecryptRead(table, filled, rows, cols, 0, << >>))

\* TableRouteCipher::TableRouteCipher(int key): columns = getValidKey(key)
RcConstruct(k) ==
    LET vk == TableRoute_getValidKey(k)
    IN /\ rcKeyArg' = k
       /\ rcText' = << >>
       /\ rcCall' = NoCall
       /\ IF vk.kind = "ok"
          THEN rcState' = "constructed" /\ columns' = vk.val /\ rcErr' = ""
          ELSE rcState' = "failed" /\ columns' = 0 /\ rcErr' = vk.kind
       /\ UNCHANGED <<maVars, ccVars>>

\* main: std::getline(std::cin, text), one character of the line at a time
RcReadChar(c) ==
    /\ rcState = "constructed"
    /\ Len(rcText) < MaxTextLen
    /\ rcText' = Append(rcText, c)
    /\ rcCall' = NoCall
    /\ UNCHANGED <<rcState, rcKeyArg, rcErr, columns>>
    /\ UNCHANGED <<maVars, ccVars>>

\* main: cipher.encrypt(text) on the live instance
RcEncrypt ==
    /\ rcState = "constructed"
    /\ rcCall' = [op |-> "encrypt", arg |-> rcText, src |-> << >>,
                  out |-> TableRoute_encrypt(columns, rcText)]
    /\ UNCHANGED <<rcState, rcKeyArg, rcErr, columns, rcText>>
    /\ UNCHANGED <<maVars, ccVars>>

\* main: cipher.decrypt(text) on the live instance
RcDecrypt ==
    /\ rcState = "constructed"
    /\ rcCall' = [op |-> "decrypt", arg |-> rcText, src |-> << >>,
                  out |-> TableRoute_decrypt(columns, rcText)]
    /\ UNCHANGED <<rcState, rcKeyArg, rcErr, columns, rcText>>
    /\ UNCHANGED <<maVars, ccVars>>

\* testCipher, test 1: decrypted = cipher1.decrypt(encrypted), reached only
\* when encrypt returned
RcDecryptEncrypted ==
    /\ rcState = "constructed"
    /\ rcCall.op = "encrypt"
    /\ rcCall.out.kind = "ok"
    /\ rcCall' = [op |-> "decryptEncrypted", arg |-> rcCall.out.val, src |-> rcCall.arg,
                  out |-> TableRoute_decrypt(columns, rcCall.out.val)]
    /\ UNCHANGED <<rcState, rcKeyArg, rcErr, columns, rcText>>
    /\ UNCHANGED <<maVars, ccVars>>

----------------------------------------------------------------------------
(* modAlphaCipher *)

\* std::wstring numAlpha = L"АБВГДЕЁЖЗИЙКЛМНОПРСТУФХЦЧШЩЪЫЬЭЮЯ"
numAlpha ==
    <<1040, 1041, 1042, 1043, 1044, 1045, 1025, 1046, 1047, 1048, 1049,
      1050, 1051, 1052, 1053, 1054, 1055, 1056, 1057, 1058, 1059, 1060,
      1061, 1062, 1063, 1064, 1065, 1066, 1067, 1068, 1069, 1070, 1071>>

\* the constructor's loop: alphaNum[numAlpha[i]] = i for i = 0..size-1
BuildAlphaNum ==
    [c \in {numAlpha[i] : i \in 1..Len(numAlpha)} |->
        (CHOOSE i \in 1..Len(numAlpha) : numAlpha[i] = c) - 1]

\* (c >= L'А' && c <= L'Я') || (c >= L'а' && c <= L'я') || c == L'Ё' || c == L'ё'
isValidChar(c) ==
    (c >= 1040 /\ c <= 1071) \/ (c >= 1072 /\ c <= 1103) \/ c = 1025 \/ c = 1105

\* (c >= L'А' && c <= L'Я') || c == L'Ё'
isUpperChar_any(c) == isValidChar(c)
isUpperChar(c) == (c >= 1040 /\ c <= 1071) \/ c = 1025

toUpperChar_id(c) == c
toUpperChar(c) ==
    IF c >= 1072 /\ c <= 1103 THEN c - 1072 + 1040
    ELSE IF c = 1105 THEN 1025
    ELSE c

\* std::tolower(wchar_t, locale("en_US.UTF-8")) as main.cpp's check uses it
tolower(c) ==
    IF c >= 1040 /\ c <= 1071 THEN c + 32
    ELSE IF c = 1025 THEN 1105
    ELSE IF c >= 65 /\ c <= 90 THEN c + 32
    ELSE c

\* modAlphaCipher::getValidKey
modAlpha_getValidKey_filtering(s) ==
    IF s = << >> THEN Throw("Empty key")
    ELSE LET letters == SelectSeq(s, isValidChar)
         IN Ok([i \in 1..Len(letters) |-> toUpperChar(letters[i])])
modAlpha_getValidKey(s) ==
    IF s = << >> THEN Throw("Empty key")
    ELSE IF \E i \in 1..Len(s) : ~isValidChar(s[i]) THEN Throw("Invalid key")
    ELSE Ok([i \in 1..Len(s) |-> toUpperChar(s[i])])

\* the for loop of getValidOpenText
RECURSIVE modAlpha_filter(_)
modAlpha_filter(s) ==
    IF s = << >> THEN << >>
    ELSE (IF isValidChar(Head(s)) THEN <<toUpperChar(Head(s))>> ELSE << >>)
         \o modAlpha_filter(Tail(s))

\* modAlphaCipher::getValidOpenText
modAlpha_getValidOpenText_strict(s) ==
    IF \E i \in 1..Len(s) : ~isValidChar(s[i]) THEN Throw("Invalid open text")
    ELSE LET tmp == modAlpha_filter(s)
         IN IF tmp = << >> THEN Throw("Empty open text") ELSE Ok(tmp)
modAlpha_getValidOpenText(s) ==
    LET tmp == modAlpha_filter(s)
    IN IF tmp = << >> THEN Throw("Empty open text") ELSE Ok(tmp)

\* modAlphaCipher::getValidCipherText
modAlpha_getValidCipherText(s) ==
    IF s = << >> THEN Throw("Empty cipher text")
    ELSE IF \E i \in 1..Len(s) : ~isUpperChar(s[i]) THEN Throw("Invalid cipher text")
    ELSE Ok(s)

\* std::vector<int> modAlphaCipher::convert(const std::wstring& s)
RECURSIVE convertToInts(_, _)
convertToInts(an, s) ==
    IF s = << >> THEN << >>
    ELSE (IF Head(s) \in DOMAIN an THEN <<an[Head(s)]>> ELSE << >>)
         \o convertToInts(an, Tail(s))

\* std::wstring modAlphaCipher::convert(const std::vector<int>& v)
RECURSIVE convertToString(_)
convertToString(v) ==
    IF v = << >> THEN << >>
    ELSE (IF Head(v) >= 0 /\ Head(v) < Len(numAlpha)
          THEN <<numAlpha[Head(v) + 1]>> ELSE << >>)
         \o convertToString(Tail(v))

\* x % numAlpha.size() evaluated in size_t: a negative int operand wraps to
\* x + 2^64 first, and 2^64 mod 33 = 16
ModSize(x) ==
    IF x >= 0 THEN x % Len(numAlpha)
    ELSE ((x % Len(numAlpha)) + 16) % Len(numAlpha)

\* encrypt's loop body: (work[i] + key[i % key.size()]) % numAlpha.size()
EncryptStep(k, work, i) == ModSize(work[i + 1] + k[(i % Len(k)) + 1])

\* decrypt's loop body:
\* (work[i] + numAlpha.size() - key[i % key.size()]) % numAlpha.size()
DecryptStep_noOffset(k, work, i) == ModSize(work[i + 1] - k[(i % Len(k)) + 1])
DecryptStep(k, work, i) == ModSize(work[i + 1] + Len(numAlpha) - k[(i % Len(k)) + 1])

\* std::map::operator[] as convert uses it (alphaNum[c]): the map after the
\* access; an absent key is inserted with a value-initialised int
MapIndex(an, c) ==
    IF c \in DOMAIN an THEN an
    ELSE [x \in (DOMAIN an) \cup {c} |-> IF x = c THEN 0 ELSE an[x]]

\* alphaNum after convert(s): find(c) reads, alphaNum[c] runs only when found
RECURSIVE convertAlphaNum(_, _)
convertAlphaNum(an, s) ==
    IF s = << >> THEN an
    ELSE convertAlphaNum(IF Head(s) \in DOMAIN an THEN MapIndex(an, Head(s)) ELSE an,
                         Tail(s))

\* the loops' assignment work[i] = v: the local vector and the member key after it
AssignWork_toKey(k, work, i, v) ==
    [work |-> work, key |-> [k EXCEPT ![(i % Len(k)) + 1] = v]]
AssignWork_alsoKey(k, work, i, v) ==
    [work |-> [work EXCEPT ![i + 1] = v], key |-> [k EXCEPT ![(i % Len(k)) + 1] = v]]
AssignWork(k, work, i, v) ==
    [work |-> [work EXCEPT ![i + 1] = v], key |-> k]

\* encrypt's loop: for (unsigned i = 0; i < work.size(); i++)
RECURSIVE EncryptLoop(_, _, _)
EncryptLoop(k, work, i) ==
    IF i >= Len(work) THEN [work |-> work, key |-> k]
    ELSE LET st == AssignWork(k, work, i, EncryptStep(k, work, i))
         IN EncryptLoop(st.key, st.work, i + 1)

\* decrypt's loop: for (unsigned i = 0; i < work.size(); i++)
RECURSIVE DecryptLoop(_, _, _)
DecryptLoop(k, work, i) ==
    IF i >= Len(work) THEN [work |-> work, key |-> k]
    ELSE LET st == AssignWork(k, work, i, DecryptStep(k, work, i))
         IN DecryptLoop(st.key, st.work, i + 1)

\* modAlphaCipher::encrypt: its outcome and the instance's fields after it
modAlpha_encrypt_run(an, k, open_text) ==
    LET vt == modAlpha_getValidOpenText(open_text)
    IN IF vt.kind # "ok" THEN [out |-> vt, alphaNum |-> an, key |-> k]
       ELSE LET work == convertToInts(an, vt.val)
                st == EncryptLoop(k, work, 0)
            IN [out |-> Ok(convertToString(st.work)),
                alphaNum |-> convertAlphaNum(an, vt.val), key |-> st.key]

\* modAlphaCipher::encrypt: what it returns or throws
modAlpha_encrypt(an, k, open_text) == modAlpha_encrypt_run(an, k, open_text).out

\* modAlphaCipher::decrypt: its outcome and the instance's fields after it
modAlpha_decrypt_run(an, k, cipher_text) ==
    LET vt == modAlpha_getValidCipherText(cipher_text)
    IN IF vt.kind # "ok" THEN [out |-> vt, alphaNum |-> an, key |-> k]
       ELSE LET work == convertToInts(an, vt.val)
                st == DecryptLoop(k, work, 0)
            IN [out |-> Ok(convertToString(st.work)),
                alphaNum |-> convertAlphaNum(an, vt.val), key |-> st.key]

\* modAlphaCipher::decrypt: what it returns or throws
modAlpha_decrypt(an, k, cipher_text) == modAlpha_decrypt_run(an, k, cipher_text).out

\* the constructor's weak-key test: isWeakKey starts true and is cleared only
\* inside if (validKey.size() > 1); then if (isWeakKey && validKey.size() > 0) throw
isWeakKey(validKey) ==
    /\ (Len(validKey) > 1 => \A i \in 2..Len(validKey) : validKey[i] = validKey[1])
    /\ Len(validKey) > 0

\* modAlphaCipher::modAlphaCipher(const std::wstring& skey)
MaConstruct ==
    /\ maState = "none"
    /\ LET an == BuildAlphaNum
           vk == modAlpha_getValidKey(maKeyArg)
       IN IF vk.kind # "ok"
          THEN maState' = "failed" /\ maErr' = vk.kind
               /\ alphaNum' = << >> /\ key' = << >>
          ELSE IF isWeakKey(vk.val)
          THEN maState' = "failed" /\ maErr' = "Weak key"
               /\ alphaNum' = << >> /\ key' = << >>
          ELSE maState' = "constructed" /\ maErr' = ""
               /\ alphaNum' = convertAlphaNum(an, vk.val)
               /\ key' = convertToInts(an, vk.val)
    /\ UNCHANGED <<maKeyArg, maText, maCall>>
    /\ UNCHANGED <<rcVars, ccVars>>

\* the caller spelling out the key, one character at a time (main.cpp: the
\* key literals handed to check)
MaKeyChar(c) ==
    /\ maState = "none"
    /\ Len(maKeyArg) < MaxKeyLen
    /\ maKeyArg' = Append(maKeyArg, c)
    /\ UNCHANGED <<maState, maErr, alphaNum, key, maText, maCall>>
    /\ UNCHANGED <<rcVars, ccVars>>

\* check returns or unwinds: the cipher object goes out of scope
MaDestroy ==
    /\ maState # "none"
    /\ maState' = "none" /\ maKeyArg' = << >> /\ maErr' = ""
    /\ alphaNum' = << >> /\ key' = << >> /\ maText' = << >> /\ maCall' = NoCall
    /\ UNCHANGED <<rcVars, ccVars>>

\* the caller spelling out the text, one character at a time (main.cpp: the
\* Text literals handed to check)
MaTextChar(c) ==
    /\ maState = "constructed"
    /\ Len(maText) < MaxAlphaLen
    /\ maText' = Append(maText, c)
    /\ maCall' = NoCall
    /\ UNCHANGED <<maState, maKeyArg, maErr, alphaNum, key>>
    /\ UNCHANGED <<rcVars, ccVars>>

\* check: cipherText = cipher.encrypt(Text)
MaEncrypt ==
    /\ maState = "constructed"
    /\ LET run == modAlpha_encrypt_run(alphaNum, key, maText)
       IN /\ maCall' = [op |-> "encrypt", arg |-> maText, src |-> << >>, out |-> run.out]
          /\ alphaNum' = run.alphaNum
          /\ key' = run.key
    /\ UNCHANGED <<maState, maKeyArg, maErr, maText>>
    /\ UNCHANGED <<rcVars, ccVars>>

\* cipher.decrypt(text) on an arbitrary text
MaDecrypt ==
    /\ maState = "constructed"
    /\ LET run == modAlpha_decrypt_run(alphaNum, key, maText)
       IN /\ maCall' = [op |-> "decrypt", arg |-> maText, src |-> << >>, out |-> run.out]
          /\ alphaNum' = run.alphaNum
          /\ key' = run.key
    /\ UNCHANGED <<maState, maKeyArg, maErr, maText>>
    /\ UNCHANGED <<rcVars, ccVars>>

\* check with destructCipherText = false: decryptedText = cipher.decrypt(cipherText)
MaDecryptEncrypted ==
    /\ maState = "constructed"
    /\ maCall.op = "encrypt"
    /\ maCall.out.kind = "ok"
    /\ LET run == modAlpha_decrypt_run(alphaNum, key, maCall.out.val)
       IN /\ maCall' = [op |-> "decryptEncrypted", arg |-> maCall.out.val,
                        src |-> maCall.arg, out |-> run.out]
          /\ alphaNum' = run.alphaNum
          /\ key' = run.key
    /\ UNCHANGED <<maState, maKeyArg, maErr, maText>>
    /\ UNCHANGED <<rcVars, ccVars>>

\* check with destructCipherText = true:
\* cipherText[0] = tolower(cipherText[0], locale); then cipher.decrypt(cipherText)
MaDecryptDestructed ==
    /\ maState = "constructed"
    /\ maCall.op = "encrypt"
    /\ maCall.out.kind = "ok"
    /\ LET cipherText == IF maCall.out.val # << >>
                         THEN [maCall.out.val EXCEPT ![1] = tolower(@)]
                         ELSE maCall.out.val
           run == modAlpha_decrypt_run(alphaNum, key, cipherText)
       IN /\ maCall' = [op |-> "decryptDestructed", arg |-> cipherText,
                        src |-> maCall.arg, out |-> run.out]
          /\ alphaNum' = run.alphaNum
          /\ key' = run.key
    /\ UNCHANGED <<maState, maKeyArg, maErr, maText>>
    /\ UNCHANGED <<rcVars, ccVars>>

----------------------------------------------------------------------------
(* Several callers on one instance, without synchronization.  A call is a  *)
(* sequence of steps; every step that reads a field of the instance reads  *)
(* it at that moment.  The route cipher's loops re-read columns at every   *)
(* iteration; one step per loop nest reads it once, which is the same as   *)
(* long as no step of any caller writes columns.                           *)

Callers == {"a", "b"}

\* inputs of the concurrent calls
RECURSIVE SeqsUpTo(_, _)
SeqsUpTo(S, n) ==
    IF n = 0 THEN {<< >>}
    ELSE LET shorter == SeqsUpTo(S, n - 1)
         IN shorter \cup {Append(q, c) : q \in {u \in shorter : Len(u) = n - 1}, c \in S}

\* 'H' and lowercase 'l'
ConcRouteTexts == SeqsUpTo({72, 108}, MaxConcRouteLen)
\* 'Я' and lowercase 'б'
ConcAlphaTexts == SeqsUpTo({1071, 1073}, MaxConcAlphaLen)
ConcRouteKeys == {1, 2}
\* "БА" and "Яб"
ConcAlphaKeys == {<<1041, 1040>>, <<1071, 1073>>}

Idle == [pc |-> "idle", op |-> "none", arg |-> << >>, vt |-> << >>, rows |-> 0,
         table |-> << >>, filled |-> << >>, i |-> 0, raced |-> FALSE,
         out |-> Throw("")]

\* another caller is inside a call
OtherBusy(t) == \E u \in Callers \ {t} : callers[u].pc \notin {"idle", "done"}

\* the storage of a call's std::vector<int> work: a local of the call
BufOf_member(t) == "a"
BufOf(t) == t

\* a call ends: it returns v or throws
Finish(rec, t, o) == [rec EXCEPT !.pc = "done", !.out = o, !.raced = @ \/ OtherBusy(t)]
Goto(rec, t, l) == [rec EXCEPT !.pc = l, !.raced = @ \/ OtherBusy(t)]

\* TableRouteCipher::encrypt / decrypt entered: getValidText(text), all local
CcRouteBegin(t, o, text) ==
    /\ rcState = "constructed"
    /\ callers[t].pc = "idle"
    /\ LET vt == TableRoute_getValidText(text)
           rec == [Idle EXCEPT !.op = o, !.arg = text]
       IN callers' = [callers EXCEPT ![t] =
             IF vt.kind # "ok" THEN Finish(rec, t, vt)
             ELSE Goto([rec EXCEPT !.vt = vt.val], t, "check")]
    /\ UNCHANGED <<rcVars, maVars, bufs>>

\* if (validText.length() <= columns) throw ...
CcRouteCheck(t) ==
    /\ callers[t].pc = "check"
    /\ callers' = [callers EXCEPT ![t] =
          IF TooShort(@.vt, columns) THEN Finish(@, t, Throw("TextTooShort"))
          ELSE Goto(@, t, "alloc")]
    /\ UNCHANGED <<rcVars, maVars, bufs>>

\* rows = (length + columns - 1) / columns; table(rows, vector<char>(columns, ' '));
\* decrypt: filled(rows, vector<bool>(columns, false))
CcRouteAlloc(t) ==
    /\ callers[t].pc = "alloc"
    /\ LET rows == (Len(callers[t].vt) + columns - 1) \div columns
       IN callers' = [callers EXCEPT ![t] =
             Goto([@ EXCEPT !.rows = rows,
                            !.table = BlankTable(rows, columns),
                            !.filled = [i \in 0..(rows - 1) |->
                                           [j \in 0..(columns - 1) |-> FALSE]]],
                  t, IF @.op = "encrypt" THEN "fill" ELSE "mark")]
    /\ UNCHANGED <<rcVars, maVars, bufs>>

\* encrypt's fill loops
CcEncryptFill(t) ==
    /\ callers[t].pc = "fill"
    /\ callers' = [callers EXCEPT ![t] =
          Goto([@ EXCEPT !.table = EncryptFill(@, callers[t].vt, callers[t].rows,
                                               columns, 0, 0)], t, "read")]
    /\ UNCHANGED <<rcVars, maVars, bufs>>

\* encrypt's read loops and return result
CcEncryptRead(t) ==
    /\ callers[t].pc = "read"
    /\ callers' = [callers EXCEPT ![t] =
          Finish(@, t, Ok(EncryptRead(@.table, @.rows, columns, 0, << >>)))]
    /\ UNCHANGED <<rcVars, maVars, bufs>>

\* decrypt's filled loops
CcDecryptMark(t) ==
    /\ callers[t].pc = "mark"
    /\ callers' = [callers EXCEPT ![t] =
          Goto([@ EXCEPT !.filled = DecryptMark(@, Len(callers[t].vt), callers[t].rows,
                                                columns, 0, 0)], t, "write")]
    /\ UNCHANGED <<rcVars, maVars, bufs>>

\* decrypt's write loops
CcDecryptWrite(t) ==
    /\ callers[t].pc = "write"
    /\ callers' = [callers EXCEPT ![t] =
          Goto([@ EXCEPT !.table = DecryptWrite(@, callers[t].filled, callers[t].vt,
                                                callers[t].rows, columns, 0, 0)],
               t, "readRows")]
    /\ UNCHANGED <<rcVars, maVars, bufs>>

\* decrypt's read loops and return result
CcDecryptRead(t) ==
    /\ callers[t].pc = "readRows"
    /\ callers' = [callers EXCEPT ![t] =
          Finish(@, t, Ok(DecryptRead(@.table, @.filled, @.rows, columns, 0, << >>)))]
    /\ UNCHANGED <<rcVars, maVars, bufs>>

\* modAlphaCipher::encrypt / decrypt entered: getValidOpenText or
\* getValidCipherText, all local; convert starts with an empty result
CcAlphaBegin(t, o, text) ==
    /\ maState = "constructed"
    /\ callers[t].pc = "idle"
    /\ LET vt == IF o = "encrypt" THEN modAlpha_getValidOpenText(text)
                 ELSE modAlpha_getValidCipherText(text)
           rec == [Idle EXCEPT !.op = o, !.arg = text]
       IN /\ callers' = [callers EXCEPT ![t] =
                IF vt.kind # "ok" THEN Finish(rec, t, vt)
                ELSE Goto([rec EXCEPT !.vt = vt.val], t, "convert")]
          /\ bufs' = IF vt.kind # "ok" THEN bufs
                     ELSE [bufs EXCEPT ![BufOf(t)] = << >>]
    /\ UNCHANGED <<rcVars, maVars>>

\* one iteration of convert(const std::wstring&): find, alphaNum[c], push_back
CcConvert(t) ==
    /\ callers[t].pc = "convert"
    /\ LET rec == callers[t]
           c == rec.vt[rec.i + 1]
           found == c \in DOMAIN alphaNum
           last == rec.i + 1 >= Len(rec.vt)
       IN /\ alphaNum' = IF found THEN MapIndex(alphaNum, c) ELSE alphaNum
          /\ bufs' = IF found THEN [bufs EXCEPT ![BufOf(t)] = Append(@, alphaNum[c])]
                     ELSE bufs
          /\ callers' = [callers EXCEPT ![t] =
                Goto([rec EXCEPT !.i = IF last THEN 0 ELSE rec.i + 1], t,
                     IF last THEN "loop" ELSE "convert")]
    /\ UNCHANGED <<rcVars, maState, maKeyArg, maErr, key, maText, maCall>>

\* one iteration of the loop of encrypt or decrypt
CcLoop(t) ==
    /\ callers[t].pc = "loop"
    /\ callers[t].i < Len(bufs[BufOf(t)])
    /\ LET rec == callers[t]
           work == bufs[BufOf(t)]
           v == IF rec.op = "encrypt" THEN EncryptStep(key, work, rec.i)
                ELSE DecryptStep(key, work, rec.i)
           st == AssignWork(key, work, rec.i, v)
       IN /\ bufs' = [bufs EXCEPT ![BufOf(t)] = st.work]
          /\ key' = st.key
          /\ callers' = [callers EXCEPT ![t] = Goto([rec EXCEPT !.i = rec.i + 1], t, "loop")]
    /\ UNCHANGED <<rcVars, maState, maKeyArg, maErr, alphaNum, maText, maCall>>

\* the loop is over: return convert(work); work goes out of scope
CcAlphaReturn(t) ==
    /\ callers[t].pc = "loop"
    /\ callers[t].i >= Len(bufs[BufOf(t)])
    /\ callers' = [callers EXCEPT ![t] =
          Finish(@, t, Ok(convertToString(bufs[BufOf(t)])))]
    /\ bufs' = [bufs EXCEPT ![BufOf(t)] = << >>]
    /\ UNCHANGED <<rcVars, maVars>>

\* the caller took the outcome and is free to call again
CcDone(t) ==
    /\ callers[t].pc = "done"
    /\ callers' = [callers EXCEPT ![t] = Idle]
    /\ UNCHANGED <<rcVars, maVars, bufs>>

----------------------------------------------------------------------------
(* Specifications *)

Init ==
    /\ rcState = "none" /\ rcKeyArg = 0 /\ rcErr = "" /\ columns = 0
    /\ rcText = << >> /\ rcCall = NoCall
    /\ maState = "none" /\ maKeyArg = << >> /\ maErr = ""
    /\ alphaNum = << >> /\ key = << >> /\ maText = << >> /\ maCall = NoCall
    /\ callers = [t \in Callers |-> Idle] /\ bufs = [t \in Callers |-> << >>]

NextRoute ==
    \/ \E k \in RouteKeys : RcConstruct(k)
    \/ \E c \in RouteChars : RcReadChar(c)
    \/ RcEncrypt
    \/ RcDecrypt
    \/ RcDecryptEncrypted

SpecRoute == Init /\ [][NextRoute]_vars

NextAlpha ==
    \/ \E c \in KeyChars : MaKeyChar(c)
    \/ MaConstruct
    \/ MaDestroy
    \/ \E c \in AlphaChars : MaTextChar(c)
    \/ MaEncrypt
    \/ MaDecrypt
    \/ MaDecryptEncrypted
    \/ MaDecryptDestructed

SpecAlpha == Init /\ [][NextAlpha]_vars

\* one run of either program: the other program's variables stay as Init
\* leaves them
NextEither ==
    \/ (maState = "none" /\ maKeyArg = << >> /\ NextRoute)
    \/ (rcState = "none" /\ NextAlpha)

SpecEither == Init /\ [][NextEither]_vars

\* one constructed instance of either cipher, shared by the callers
InitConcurrent ==
    /\ callers = [t \in Callers |-> Idle] /\ bufs = [t \in Callers |-> << >>]
    /\ rcText = << >> /\ rcCall = NoCall /\ rcErr = ""
    /\ maText = << >> /\ maCall = NoCall /\ maErr = ""
    /\ \/ /\ \E k \in ConcRouteKeys :
                /\ rcKeyArg = k
                /\ columns = TableRoute_getValidKey(k).val
          /\ rcState = "constructed"
          /\ maState = "none" /\ maKeyArg = << >> /\ alphaNum = << >> /\ key = << >>
       \/ /\ \E k \in ConcAlphaKeys :
                /\ maKeyArg = k
                /\ alphaNum = convertAlphaNum(BuildAlphaNum, modAlpha_getValidKey(k).val)
                /\ key = convertToInts(BuildAlphaNum, modAlpha_getValidKey(k).val)
          /\ maState = "constructed"
          /\ rcState = "none" /\ rcKeyArg = 0 /\ columns = 0

NextConcurrent ==
    \E t \in Callers :
       \/ \E o \in {"encrypt", "decrypt"}, text \in ConcRouteTexts : CcRouteBegin(t, o, text)
       \/ CcRouteCheck(t)
       \/ CcRouteAlloc(t)
       \/ CcEncryptFill(t)
       \/ CcEncryptRead(t)
       \/ CcDecryptMark(t)
       \/ CcDecryptWrite(t)
       \/ CcDecryptRead(t)
       \/ \E o \in {"encrypt", "decrypt"}, text \in ConcAlphaTexts : CcAlphaBegin(t, o, text)
       \/ CcConvert(t)
       \/ CcLoop(t)
       \/ CcAlphaReturn(t)
       \/ CcDone(t)

SpecConcurrent == InitConcurrent /\ [][NextConcurrent]_vars

----------------------------------------------------------------------------
(* Vocabulary of the properties *)

\* the normalized form of a route cipher text: its letters, uppercased
RouteNormalize(text) ==
    LET letters == SelectSeq(text, isalpha)
    IN [i \in 1..Len(letters) |-> toupper(letters[i])]

\* the uppercase letters of the 33-letter alphabet and their positions 0..32
UpperLetters == {numAlpha[i] : i \in 1..Len(numAlpha)}
LetterIndex(c) == (CHOOSE i \in 1..Len(numAlpha) : numAlpha[i] = c) - 1

\* the filtered, uppercased form of a substitution cipher text
AlphaNormalize(text) ==
    LET letters == SelectSeq(text, isValidChar)
    IN [i \in 1..Len(letters) |-> toUpperChar(letters[i])]

\* a valid substitution key: non-empty, alphabet letters only, and not a
\* multi-character key of identical letters
ValidAlphaKey(k) ==
    /\ k # << >>
    /\ \A i \in 1..Len(k) : isValidChar(k[i])
    /\ ~(Len(k) > 1 /\ \A i \in 1..Len(k) : toUpperChar(k[i]) = toUpperChar(k[1]))

\* the error kind a cipher_error message of modAlphaCipher stands for
ErrorKind(what) ==
    CASE what = "Empty key" -> "EmptyKey"
      [] what = "Invalid key" -> "InvalidKey"
      [] what = "Weak key" -> "WeakKey"
      [] what = "Empty open text" -> "EmptyText"
      [] what = "Empty cipher text" -> "EmptyText"
      [] what = "Invalid cipher text" -> "InvalidCipherText"
      [] OTHER -> what

DecryptOps == {"decrypt", "decryptEncrypted", "decryptDestructed"}

----------------------------------------------------------------------------
(* Properties *)

\* C1: route cipher round trip. Whenever the normalized text is longer than
\* columns, encrypt succeeds, and decrypting its result on the same instance
\* returns exactly the normalized text, partial last row included.
C1_RouteRoundTrip ==
    /\ (rcCall.op = "encrypt" /\ Len(RouteNormalize(rcCall.arg)) > columns)
          => rcCall.out.kind = "ok"
    /\ rcCall.op = "decryptEncrypted"
          => rcCall.out = Ok(RouteNormalize(rcCall.src))

\* a round trip over a table whose last row is partial, on a text that had
\* a character dropped, and whose ciphertext differs from the plaintext
C1_Witness ==
    /\ rcCall.op = "decryptEncrypted"
    /\ columns >= 2
    /\ Len(rcCall.arg) % columns # 0
    /\ rcCall.src # RouteNormalize(rcCall.src)
    /\ rcCall.arg # rcCall.out.val
    /\ rcCall.out = Ok(RouteNormalize(rcCall.src))

\* C2: substitution cipher round trip. Every valid key (non-empty, alphabet
\* letters only, not a multi-character key of identical letters) constructs,
\* encrypt succeeds on every text with at least one alphabet letter, and
\* decrypting the result returns the filtered, uppercased text.
C2_AlphaRoundTrip ==
    /\ (maState # "none" /\ ValidAlphaKey(maKeyArg)) => maState = "constructed"
    /\ (maCall.op = "encrypt" /\ AlphaNormalize(maCall.arg) # << >>)
          => maCall.out.kind = "ok"
    /\ maCall.op = "decryptEncrypted"
          => maCall.out = Ok(AlphaNormalize(maCall.src))

\* C3: a key of exactly one alphabet letter constructs, with that letter's
\* index as the only key index.
C3_SingleLetterKeyAccepted ==
    (maState # "none" /\ Len(maKeyArg) = 1 /\ isValidChar(maKeyArg[1]))
       => /\ maState = "constructed"
          /\ key = <<LetterIndex(toUpperChar(maKeyArg[1]))>>

\* C4: a key of length > 1 whose letters are identical after uppercasing
\* fails with WeakKey; no instance holds an empty keyIndices or a
\* multi-element keyIndices whose entries are all equal.
C4_WeakKeyRejected ==
    /\ (/\ maState # "none"
        /\ Len(maKeyArg) > 1
        /\ \A i \in 1..Len(maKeyArg) : isValidChar(maKeyArg[i])
        /\ \A i \in 1..Len(maKeyArg) : toUpperChar(maKeyArg[i]) = toUpperChar(maKeyArg[1]))
          => (maState = "failed" /\ ErrorKind(maErr) = "WeakKey")
    /\ maState = "constructed"
          => /\ key # << >>
             /\ ~(Len(key) > 1 /\ \A i \in 1..Len(key) : key[i] = key[1])

\* a three-letter key of one letter in mixed case, rejected as weak
C4_Witness ==
    /\ maState = "failed"
    /\ maErr = "Weak key"
    /\ Len(maKeyArg) = 3
    /\ \E i, j \in 1..3 : maKeyArg[i] = 1041 /\ maKeyArg[j] = 1073

\* C5: route construction fails with InvalidKey exactly when the key is
\* <= 0; every instance has columns > 0.
C5_RouteKeyValidation ==
    rcState # "none"
       => /\ (rcState = "failed") <=> (rcKeyArg <= 0)
          /\ rcState = "failed" => rcErr = "InvalidKey"
          /\ rcState = "constructed" => (columns > 0 /\ columns = rcKeyArg)

\* construction with key 0 failed
C5_Witness == rcState = "failed" /\ rcKeyArg = 0 /\ rcErr = "InvalidKey"

\* C6: route length rule. For a text with n >= 1 letters, encrypt and decrypt
\* fail with TextTooShort exactly when n <= columns, n being the normalized
\* length, and succeed otherwise.
C6_RouteLengthRule ==
    (rcCall.op \in {"encrypt", "decrypt"} /\ RouteNormalize(rcCall.arg) # << >>)
       => /\ (rcCall.out.kind = "TextTooShort")
                <=> (Len(RouteNormalize(rcCall.arg)) <= columns)
          /\ rcCall.out.kind \in {"TextTooShort", "ok"}

\* a call whose raw text is longer than columns but whose normalized text is
\* exactly columns long, rejected
C6_Witness ==
    /\ rcCall.op \in {"encrypt", "decrypt"}
    /\ Len(rcCall.arg) > columns
    /\ Len(RouteNormalize(rcCall.arg)) = columns
    /\ rcCall.out.kind = "TextTooShort"

\* the reference traversal: the n characters sit row-major in a
\* ceil(n/cols) x cols grid; cells are visited from the rightmost column to
\* the leftmost and from the last row to the first; unfilled cells are skipped
RefRows(n, cols) == CHOOSE r \in 0..n : r * cols >= n /\ (r - 1) * cols < n
RefEncrypt(vt, cols) ==
    LET n == Len(vt)
        rows == RefRows(n, cols)
        pos == [m \in 1..(rows * cols) |->
                   (rows - 1 - ((m - 1) % rows)) * cols + (cols - 1 - ((m - 1) \div rows))]
        kept == SelectSeq(pos, LAMBDA q : q < n)
    IN [m \in 1..Len(kept) |-> vt[kept[m] + 1]]

\* C7: a successful route encrypt returns the reference traversal of the
\* normalized text, of the same length n.
C7_RouteEncryptTraversal ==
    (rcCall.op = "encrypt" /\ rcCall.out.kind = "ok")
       => /\ rcCall.out.val = RefEncrypt(RouteNormalize(rcCall.arg), columns)
          /\ Len(rcCall.out.val) = Len(RouteNormalize(rcCall.arg))

\* columns = 3, "HELLO" gives "LOELH"
C7_Witness ==
    /\ rcCall.op = "encrypt"
    /\ columns = 3
    /\ rcCall.arg = <<72, 69, 76, 76, 79>>
    /\ rcCall.out = Ok(<<76, 79, 69, 76, 72>>)

\* C8: substitution per-position arithmetic. Position i of the validated
\* text, of index v, gives the letter of index (v + key[i mod len]) mod 33
\* on encrypt and (v + 33 - key[i mod len]) mod 33 on decrypt; v + 33 - key
\* is never negative; the output is as long as the validated text.
C8_AlphaArithmetic ==
    /\ (maCall.op = "encrypt" /\ maCall.out.kind = "ok")
          => LET vt == AlphaNormalize(maCall.arg)
             IN /\ Len(maCall.out.val) = Len(vt)
                /\ \A i \in 0..(Len(vt) - 1) :
                      maCall.out.val[i + 1] =
                         numAlpha[((LetterIndex(vt[i + 1]) + key[(i % Len(key)) + 1]) % 33) + 1]
    /\ (maCall.op \in DecryptOps /\ maCall.out.kind = "ok")
          => LET vt == maCall.arg
             IN /\ Len(maCall.out.val) = Len(vt)
                /\ \A i \in 0..(Len(vt) - 1) :
                      LET x == LetterIndex(vt[i + 1]) + 33 - key[(i % Len(key)) + 1]
                      IN x >= 0 /\ maCall.out.val[i + 1] = numAlpha[(x % 33) + 1]

\* a decrypt longer than its key, with a position whose letter index is
\* below its key index
C8_Witness ==
    /\ maCall.op = "decrypt"
    /\ maCall.out.kind = "ok"
    /\ Len(key) >= 2
    /\ Len(maCall.arg) > Len(key)
    /\ \E i \in 0..(Len(maCall.arg) - 1) :
          LetterIndex(maCall.arg[i + 1]) < key[(i % Len(key)) + 1]

\* C9: substitution decrypt is strict. Empty input fails with EmptyText, an
\* input with a character that is not an uppercase alphabet letter fails
\* with InvalidCipherText, a successful decrypt kept every character, and a
\* ciphertext with its first character lowercased is rejected.
C9_AlphaDecryptStrict ==
    maCall.op \in DecryptOps
       => /\ maCall.arg = << >>
                => (maCall.out.kind # "ok" /\ ErrorKind(maCall.out.kind) = "EmptyText")
          /\ (\E i \in 1..Len(maCall.arg) : maCall.arg[i] \notin UpperLetters)
                => ErrorKind(maCall.out.kind) = "InvalidCipherText"
          /\ maCall.out.kind = "ok" => Len(maCall.out.val) = Len(maCall.arg)
          /\ maCall.op = "decryptDestructed"
                => ErrorKind(maCall.out.kind) = "InvalidCipherText"

\* the ciphertext of a successful encrypt, first character lowercased,
\* rejected by decrypt
C9_Witness ==
    /\ maCall.op = "decryptDestructed"
    /\ maCall.arg[1] \notin UpperLetters
    /\ isValidChar(maCall.arg[1])
    /\ maCall.out.kind = "Invalid cipher text"

\* C10: substitution encrypt is lenient. It fails with EmptyText exactly when
\* no alphabet letter remains, never fails otherwise, and returns what it
\* returns on the filtered, uppercased text.
C10_AlphaEncryptLenient ==
    maCall.op = "encrypt"
       => /\ (maCall.out.kind # "ok") <=> (AlphaNormalize(maCall.arg) = << >>)
          /\ maCall.out.kind # "ok" => ErrorKind(maCall.out.kind) = "EmptyText"
          /\ maCall.out = modAlpha_encrypt(alphaNum, key, AlphaNormalize(maCall.arg))

\* an encrypt that dropped a Latin character and uppercased a letter
C10_Witness ==
    /\ maCall.op = "encrypt"
    /\ \E i \in 1..Len(maCall.arg) : maCall.arg[i] = 75
    /\ \E i \in 1..Len(maCall.arg) : maCall.arg[i] = 1073
    /\ maCall.out.kind = "ok"
    /\ Len(maCall.out.val) < Len(maCall.arg)

\* C11: route text validation. encrypt and decrypt fail with EmptyText on
\* the empty string and with NoLetters on a non-empty input without a
\* letter, whatever columns is; a letterless input never gives TextTooShort.
C11_RouteTextValidation ==
    rcCall.op \in {"encrypt", "decrypt"}
       => /\ rcCall.arg = << >> => rcCall.out = Throw("EmptyText")
          /\ (rcCall.arg # << >> /\ \A i \in 1..Len(rcCall.arg) : ~isalpha(rcCall.arg[i]))
                => rcCall.out = Throw("NoLetters")
          /\ rcCall.out.kind \in {"EmptyText", "NoLetters"}
                => RouteNormalize(rcCall.arg) = << >>

\* a decrypt of a letterless text no longer than columns: NoLetters, although
\* the length rule would reject it too
C11_Witness ==
    /\ rcCall.op = "decrypt"
    /\ rcCall.arg # << >>
    /\ Len(rcCall.arg) <= columns
    /\ rcCall.out = Throw("NoLetters")

\* a letter of the 33-letter alphabet, in either case
AlphabetLetter(c) == c \in UpperLetters \/ c \in {tolower(u) : u \in UpperLetters}

\* C12: substitution key validation. Construction fails with EmptyKey on the
\* empty key and with InvalidKey when any character is not an alphabet letter
\* of either case, also when the key would be weak; a failed construction
\* leaves no instance, and no text was examined.
C12_AlphaKeyValidation ==
    maState # "none"
       => /\ maKeyArg = << >>
                => (maState = "failed" /\ ErrorKind(maErr) = "EmptyKey")
          /\ (\E i \in 1..Len(maKeyArg) : ~AlphabetLetter(maKeyArg[i]))
                => (maState = "failed" /\ ErrorKind(maErr) = "InvalidKey")
          /\ maState = "failed"
                => (maCall = NoCall /\ maText = << >> /\ key = << >> /\ alphaNum = << >>)

\* a key of two identical Latin letters: InvalidKey, not WeakKey
C12_Witness ==
    /\ maState = "failed"
    /\ maKeyArg = <<75, 75>>
    /\ maErr = "Invalid key"

\* C16 as stated: for every input, route decrypt(text) has the outcome of
\* decrypt(normalize(text)).
C16_DecryptOfNormalized ==
    rcCall.op = "decrypt"
       => rcCall.out = TableRoute_decrypt(columns, RouteNormalize(rcCall.arg))

\* C16, amended: for every input that is empty or contains a letter, route
\* decrypt(text) has the outcome of decrypt(normalize(text)), and it succeeds
\* whenever more than columns letters remain.
C16_DecryptNormalizes ==
    (rcCall.op = "decrypt"
        /\ (rcCall.arg = << >> \/ RouteNormalize(rcCall.arg) # << >>))
       => /\ rcCall.out = TableRoute_decrypt(columns, RouteNormalize(rcCall.arg))
          /\ Len(RouteNormalize(rcCall.arg)) > columns => rcCall.out.kind = "ok"

\* a decrypt that succeeded on a text with a digit and a lowercase letter
C16_Witness ==
    /\ rcCall.op = "decrypt"
    /\ \E i \in 1..Len(rcCall.arg) : rcCall.arg[i] = 49
    /\ \E i \in 1..Len(rcCall.arg) : rcCall.arg[i] = 108
    /\ rcCall.out.kind = "ok"
    /\ rcCall.out = TableRoute_decrypt(columns, RouteNormalize(rcCall.arg))

\* the fields a fresh instance built from the same constructor argument holds
FreshAlphaNum == [c \in UpperLetters |-> LetterIndex(c)]
FreshKey == [i \in 1..Len(maKeyArg) |-> LetterIndex(toUpperChar(maKeyArg[i]))]

\* C13: instance immutability. Whatever calls were made on a constructed
\* instance, succeeding or failing, columns (route cipher) and alphaNum and
\* key (substitution cipher) hold the values construction gave them.
C13_InstanceImmutable ==
    /\ rcState = "constructed" => columns = rcKeyArg
    /\ maState = "constructed" => (alphaNum = FreshAlphaNum /\ key = FreshKey)

\* a failing decrypt that followed a successful encrypt, instance unchanged
C13_Witness ==
    /\ maCall.op = "decryptDestructed"
    /\ maCall.out.kind # "ok"
    /\ Len(maCall.src) >= 2
    /\ alphaNum = FreshAlphaNum
    /\ key = FreshKey

\* C14: determinism and history independence. The outcome of a call on an
\* instance with any call history is the outcome a fresh instance of the
\* same key gives on the same input, so two instances of one key agree on
\* every input whatever their histories.
C14_HistoryIndependent ==
    /\ rcCall.op = "encrypt"
          => rcCall.out = TableRoute_encrypt(rcKeyArg, rcCall.arg)
    /\ rcCall.op \in {"decrypt", "decryptEncrypted"}
          => rcCall.out = TableRoute_decrypt(rcKeyArg, rcCall.arg)
    /\ maCall.op = "encrypt"
          => maCall.out = modAlpha_encrypt(FreshAlphaNum, FreshKey, maCall.arg)
    /\ maCall.op \in DecryptOps
          => maCall.out = modAlpha_decrypt(FreshAlphaNum, FreshKey, maCall.arg)

\* a successful decrypt on an instance that had already served an encrypt
C14_Witness ==
    /\ maCall.op = "decryptEncrypted"
    /\ maCall.out.kind = "ok"
    /\ Len(maCall.arg) > Len(FreshKey)
    /\ maCall.out = modAlpha_decrypt(FreshAlphaNum, FreshKey, maCall.arg)

\* the outcome of a call run alone on the instance as constructed
AloneOutcome(rec) ==
    IF rcState = "constructed"
    THEN IF rec.op = "encrypt" THEN TableRoute_encrypt(rcKeyArg, rec.arg)
         ELSE TableRoute_decrypt(rcKeyArg, rec.arg)
    ELSE IF rec.op = "encrypt" THEN modAlpha_encrypt(FreshAlphaNum, FreshKey, rec.arg)
         ELSE modAlpha_decrypt(FreshAlphaNum, FreshKey, rec.arg)

\* C15: concurrent use of one instance. Whatever the interleaving of the
\* callers' steps, every finished call has the outcome it has when run alone,
\* and the instance's fields are the ones construction gave.
C15_ConcurrentCalls ==
    /\ \A t \in Callers : callers[t].pc = "done" => callers[t].out = AloneOutcome(callers[t])
    /\ rcState = "constructed" => columns = rcKeyArg
    /\ maState = "constructed" => (alphaNum = FreshAlphaNum /\ key = FreshKey)

\* two calls on different inputs, each of which ran while the other was in
\* progress, both returned
C15_Witness ==
    /\ maState = "constructed"
    /\ \A t \in Callers : /\ callers[t].pc = "done"
                          /\ callers[t].raced
                          /\ callers[t].out.kind = "ok"
                          /\ Len(callers[t].arg) >= 2
    /\ callers["a"].arg # callers["b"].arg
    /\ callers["a"].op # callers["b"].op

====
